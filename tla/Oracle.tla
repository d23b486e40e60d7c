------------------------------- MODULE Oracle -------------------------------
(***************************************************************************)
(* The price feed (contracts/oracle): an admin sets prices, a reader gets  *)
(* one only while it is not older than max_age_ledgers.  Reading changes   *)
(* nothing but storage lifetimes, so get_price and get_prices are          *)
(* operators and not actions.                                              *)
(***************************************************************************)
EXTENDS Integers

CONSTANTS
    Admins,                   \* addresses that may hold the admin role
    Assets,                   \* tokens that have a price
    PriceInputs,              \* prices callers pass to set_price
    AgeInputs,                \* ages callers pass to set_max_age_ledgers
    DEFAULT_MAX_AGE_LEDGERS,
    NoAdmin,                  \* initialize has not run
    NoPrice,                  \* get_price_data finds nothing
    MaxLedger                 \* bound: the last ledger of a behaviour

PriceData == [price : Nat \ {0}, updated_ledger : Nat]

ASSUME OracleAssumption ==
    /\ NoAdmin \notin Admins
    /\ NoPrice \notin PriceData
    /\ PriceInputs \subseteq Int
    /\ AgeInputs \subseteq Nat
    /\ DEFAULT_MAX_AGE_LEDGERS \in Nat
    /\ MaxLedger \in Nat

VARIABLES
    admin,      \* DataKey::Admin
    maxAge,     \* DataKey::MaxAgeLedgers, 0 when absent
    prices,     \* DataKey::Price(asset)
    sequence    \* env.ledger().sequence()

oracleVars == <<admin, maxAge, prices, sequence>>

OracleTypeOK ==
    /\ admin \in Admins \cup {NoAdmin}
    /\ maxAge \in Nat
    /\ sequence \in Nat
    /\ prices \in [Assets -> PriceData \cup {NoPrice}]
    /\ \A a \in Assets : prices[a] # NoPrice => prices[a].updated_ledger <= sequence

OracleInit ==
    /\ admin = NoAdmin
    /\ maxAge = 0
    /\ prices = [a \in Assets |-> NoPrice]
    /\ sequence = 0

-----------------------------------------------------------------------------

\* (mutant) a price of exactly the limit's age is refused
FreshBelowLimit(a) ==
    /\ prices[a] # NoPrice
    /\ maxAge > 0 => sequence - prices[a].updated_ledger < maxAge

\* Where load_fresh_price returns; it then returns prices[a].price.
Fresh(a) ==
    /\ prices[a] # NoPrice
    /\ maxAge > 0 => sequence - prices[a].updated_ledger <= maxAge

Initialize(a) ==
    /\ admin = NoAdmin
    /\ admin' = a
    /\ maxAge' = DEFAULT_MAX_AGE_LEDGERS
    /\ UNCHANGED <<prices, sequence>>

\* Entry points that act for the admin take no caller: the stored admin signs.
SetAdmin(new) ==
    /\ admin # NoAdmin
    /\ admin' = new
    /\ UNCHANGED <<maxAge, prices, sequence>>

SetMaxAgeLedgers(age) ==
    /\ admin # NoAdmin
    /\ maxAge' = age
    /\ UNCHANGED <<admin, prices, sequence>>

\* (mutant) publishing one price renews them all
SetPriceRenewingAll(a, p) ==
    /\ p > 0
    /\ admin # NoAdmin
    /\ prices' = [b \in Assets |->
            IF b = a THEN [price |-> p, updated_ledger |-> sequence]
            ELSE IF prices[b] = NoPrice THEN NoPrice
            ELSE [prices[b] EXCEPT !.updated_ledger = sequence]]
    /\ UNCHANGED <<admin, maxAge, sequence>>

SetPrice(a, p) ==
    /\ p > 0
    /\ admin # NoAdmin
    /\ prices' = [prices EXCEPT ![a] = [price |-> p, updated_ledger |-> sequence]]
    /\ UNCHANGED <<admin, maxAge, sequence>>

NextLedger ==
    /\ sequence < MaxLedger
    /\ sequence' = sequence + 1
    /\ UNCHANGED <<admin, maxAge, prices>>

OracleNext ==
    \/ \E a \in Admins : Initialize(a) \/ SetAdmin(a)
    \/ \E n \in AgeInputs : SetMaxAgeLedgers(n)
    \/ \E a \in Assets, p \in PriceInputs : SetPrice(a, p)
    \/ NextLedger

OracleSpec == OracleInit /\ [][OracleNext]_oracleVars

-----------------------------------------------------------------------------

\* docs/security.md:39, "Oracle reads fail with StalePrice when older than
\* max_age_ledgers".  A price that readers were refused as stale or missing
\* comes back only when the admin publishes that very asset again, or changes
\* the limit; neither time, nor another asset's price, nor a new admin revives
\* it.
StaleStaysRefused ==
    [][ \A a \in Assets :
            ~Fresh(a) /\ Fresh(a)' =>
                \/ maxAge' # maxAge
                \/ /\ prices'[a].updated_ledger = sequence
                   /\ \A b \in Assets \ {a} : prices'[b] = prices[b] ]_oracleVars

\* A price the admin has just published (set_price returned) is readable at
\* once and stays readable through the following max_age_ledgers ledgers.
PublishedIsReadable ==
    [][ \A a \in Assets :
            /\ prices'[a] # prices[a] => Fresh(a)'
            /\ Fresh(a) /\ ~Fresh(a)' =>
                  \/ maxAge' # maxAge
                  \/ sequence' > prices[a].updated_ledger + maxAge ]_oracleVars

=============================================================================
