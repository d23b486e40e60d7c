---------------------------- MODULE OracleProofs ----------------------------
(***************************************************************************)
(* Proofs about the price feed, for any assets, prices and limits.         *)
(***************************************************************************)
EXTENDS Oracle, TLAPS

\* The initial state has the right types.
LEMMA InitTyped == OracleInit => OracleTypeOK
<1> SUFFICES ASSUME OracleInit PROVE OracleTypeOK
    OBVIOUS
<1> USE OracleAssumption DEF OracleInit
<1>1. \A a \in Assets : prices[a] = NoPrice
    OBVIOUS
<1>2. prices \in [Assets -> PriceData \cup {NoPrice}]
    OBVIOUS
<1> QED
    BY <1>1, <1>2 DEF OracleTypeOK

\* A step keeps the types; set_price accepts positive prices only and dates
\* them with the current ledger, and the ledger number only rises.
LEMMA NextTyped == OracleTypeOK /\ [OracleNext]_oracleVars => OracleTypeOK'
<1> SUFFICES ASSUME OracleTypeOK, [OracleNext]_oracleVars PROVE OracleTypeOK'
    OBVIOUS
<1> USE OracleAssumption DEF OracleTypeOK
<1>1. ASSUME NEW a \in Admins, Initialize(a) PROVE OracleTypeOK'
    BY <1>1 DEF Initialize
<1>2. ASSUME NEW a \in Admins, SetAdmin(a) PROVE OracleTypeOK'
    BY <1>2 DEF SetAdmin
<1>3. ASSUME NEW n \in AgeInputs, SetMaxAgeLedgers(n) PROVE OracleTypeOK'
    BY <1>3 DEF SetMaxAgeLedgers
<1>4. ASSUME NEW a \in Assets, NEW p \in PriceInputs, SetPrice(a, p)
      PROVE  OracleTypeOK'
  <2> DEFINE entry == [price |-> p, updated_ledger |-> sequence]
  <2>1. entry \in PriceData
      BY <1>4 DEF SetPrice, PriceData
  <2>2. prices' \in [Assets -> PriceData \cup {NoPrice}]
      BY <1>4, <2>1 DEF SetPrice
  <2>3. \A b \in Assets : prices'[b] # NoPrice => prices'[b].updated_ledger <= sequence'
      BY <1>4 DEF SetPrice
  <2> QED
      BY <1>4, <2>2, <2>3 DEF SetPrice
<1>5. CASE NextLedger
  <2>1. \A b \in Assets : prices[b] # NoPrice => prices[b].updated_ledger \in Nat
      BY DEF PriceData
  <2> QED
      BY <1>5, <2>1 DEF NextLedger
<1>6. CASE UNCHANGED oracleVars
    BY <1>6 DEF oracleVars
<1> QED
    BY <1>1, <1>2, <1>3, <1>4, <1>5, <1>6 DEF OracleNext

\* Admin, limit, prices and their ledgers keep their types: a stored price is
\* positive (set_price) and never dated in the future.
THEOREM OracleTypeCorrect == OracleSpec => []OracleTypeOK
<1> QED
    BY InitTyped, NextTyped, PTL DEF OracleSpec

\* Neither time nor another asset's publication revives a refused price: for
\* any limit, prices and assets.
THEOREM StaleRefused == OracleSpec => StaleStaysRefused
<1> DEFINE A == \A a \in Assets :
        ~Fresh(a) /\ Fresh(a)' =>
            \/ maxAge' # maxAge
            \/ /\ prices'[a].updated_ledger = sequence
               /\ \A b \in Assets \ {a} : prices'[b] = prices[b]
<1>1. OracleTypeOK /\ [OracleNext]_oracleVars => [A]_oracleVars
  <2> SUFFICES ASSUME OracleTypeOK, [OracleNext]_oracleVars,
                      NEW a \in Assets, ~Fresh(a), Fresh(a)', maxAge' = maxAge
               PROVE  /\ prices'[a].updated_ledger = sequence
                      /\ \A b \in Assets \ {a} : prices'[b] = prices[b]
      OBVIOUS
  <2> USE OracleAssumption DEF OracleTypeOK
  <2>1. prices' # prices
    <3>1. SUFFICES ASSUME prices' = prices PROVE FALSE
        OBVIOUS
    <3>2. sequence' \in Nat /\ sequence' >= sequence
        BY DEF OracleNext, Initialize, SetAdmin, SetMaxAgeLedgers, SetPrice,
               NextLedger, oracleVars
    <3>3. prices[a] # NoPrice => prices[a].updated_ledger \in Nat
        BY DEF PriceData
    <3> QED
        BY <3>1, <3>2, <3>3 DEF Fresh
  <2>2. PICK b \in Assets, p \in PriceInputs : SetPrice(b, p)
      BY <2>1 DEF OracleNext, Initialize, SetAdmin, SetMaxAgeLedgers,
                  NextLedger, oracleVars
  <2>3. \A c \in Assets \ {b} : prices'[c] = prices[c]
      BY <2>2 DEF SetPrice
  <2>4. a = b
      BY <2>2, <2>3 DEF SetPrice, Fresh
  <2> QED
      BY <2>2, <2>3, <2>4 DEF SetPrice
<1> QED
    BY <1>1, OracleTypeCorrect, PTL DEF OracleSpec, StaleStaysRefused

\* A price is readable from its publication through the last ledger of the
\* limit, for any limit.
THEOREM PublishedReadable == OracleSpec => PublishedIsReadable
<1> DEFINE B == \A a \in Assets :
        /\ prices'[a] # prices[a] => Fresh(a)'
        /\ Fresh(a) /\ ~Fresh(a)' =>
              \/ maxAge' # maxAge
              \/ sequence' > prices[a].updated_ledger + maxAge
<1>1. OracleTypeOK /\ [OracleNext]_oracleVars => [B]_oracleVars
  <2> SUFFICES ASSUME OracleTypeOK, OracleTypeOK', [OracleNext]_oracleVars,
                      NEW a \in Assets
               PROVE  /\ prices'[a] # prices[a] => Fresh(a)'
                      /\ Fresh(a) /\ ~Fresh(a)' =>
                            \/ maxAge' # maxAge
                            \/ sequence' > prices[a].updated_ledger + maxAge
      BY NextTyped
  <2> USE OracleAssumption DEF OracleTypeOK
  <2>1. ASSUME prices'[a] # prices[a]
        PROVE  prices'[a] # NoPrice /\ prices'[a].updated_ledger = sequence'
    <3>1. PICK b \in Assets, p \in PriceInputs : SetPrice(b, p)
        BY <2>1 DEF OracleNext, Initialize, SetAdmin, SetMaxAgeLedgers,
                    NextLedger, oracleVars
    <3>2. a = b
        BY <2>1, <3>1 DEF SetPrice
    <3>3. prices'[a] = [price |-> p, updated_ledger |-> sequence] /\ sequence' = sequence
        BY <3>1, <3>2 DEF SetPrice
    <3>4. p \in Nat \ {0}
        BY <3>1 DEF SetPrice
    <3>5. prices'[a] \in PriceData
        BY <3>3, <3>4 DEF PriceData
    <3> QED
        BY <3>3, <3>5
  <2>2. prices'[a] # prices[a] => Fresh(a)'
      BY <2>1 DEF Fresh
  <2>3. prices[a] # NoPrice => prices[a].updated_ledger \in Nat
      BY DEF PriceData
  <2>4. ASSUME Fresh(a), ~Fresh(a)', maxAge' = maxAge
        PROVE  sequence' > prices[a].updated_ledger + maxAge
    <3>1. prices'[a] = prices[a]
        BY <2>2, <2>4
    <3>2. ~(sequence' - prices[a].updated_ledger <= maxAge) /\ prices[a] # NoPrice
        BY <2>4, <3>1 DEF Fresh
    <3> QED
        BY <2>3, <3>2
  <2> QED
      BY <2>2, <2>4
<1> QED
    BY <1>1, OracleTypeCorrect, PTL DEF OracleSpec, PublishedIsReadable

=============================================================================
