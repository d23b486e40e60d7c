----------------------------- MODULE ShareToken -----------------------------
(***************************************************************************)
(* The SEP-41 share token of a vault (contracts/share_token).              *)
(*                                                                         *)
(* Every entry point of the contract is one transaction: it either runs to *)
(* its end or panics and is rolled back, so an entry point is one action   *)
(* whose guard is the conjunction of the checks it makes.  Amounts are     *)
(* i128 values and every sum and difference is a checked one.              *)
(***************************************************************************)
EXTENDS Integers, FiniteSets, Functions

CONSTANTS
    Accounts,      \* addresses that can hold tokens
    Spenders,      \* addresses that holders approve
    NoAdmin,       \* get_admin finds no admin: initialize has not run
    MaxI128,       \* largest i128 (scaled down in the models)
    Amounts,       \* amounts callers pass in
    Expirations,   \* expiration ledgers callers pass to approve
    MaxLedger      \* bound: the last ledger of a behaviour

ASSUME TokenAssumption ==
    /\ IsFiniteSet(Accounts)
    /\ NoAdmin \notin Accounts
    /\ Spenders \subseteq Accounts
    /\ MaxI128 \in Nat \ {0}
    /\ Amounts \subseteq -MaxI128 .. MaxI128
    /\ Expirations \subseteq Nat
    /\ MaxLedger \in Nat

VARIABLES
    admin,         \* the address allowed to mint, or NoAdmin
    balance,       \* Balance(a), 0 when the entry is absent
    totalSupply,   \* TotalSupply
    allowance,     \* Allowance(from, spender)
    sequence       \* env.ledger().sequence()

tokenVars == <<admin, balance, totalSupply, allowance, sequence>>

MinI128 == -MaxI128 - 1

InI128(x) == MinI128 <= x /\ x <= MaxI128

AllowanceValue == [amount : 0 .. MaxI128, expiration_ledger : Nat]

\* An absent entry reads as a zero allowance.
NoAllowance == [amount |-> 0, expiration_ledger |-> 0]

TokenTypeOK ==
    /\ admin \in Accounts \cup {NoAdmin}
    /\ balance \in [Accounts -> 0 .. MaxI128]
    /\ totalSupply \in MinI128 .. MaxI128
    /\ allowance \in [Accounts \X Spenders -> AllowanceValue]
    /\ sequence \in Nat

TokenInit ==
    /\ admin = NoAdmin
    /\ balance = [a \in Accounts |-> 0]
    /\ totalSupply = 0
    /\ allowance = [p \in Accounts \X Spenders |-> NoAllowance]
    /\ sequence = 0

-----------------------------------------------------------------------------

Initialize(a) ==
    /\ admin = NoAdmin
    /\ admin' = a
    /\ totalSupply' = 0
    /\ UNCHANGED <<balance, allowance, sequence>>

\* (mutant) an expired allowance still counts
AllowanceIgnoringExpiry(from, spender) == allowance[from, spender].amount

\* What from has left for spender: an entry past its ledger reads as zero.
CurrentAllowance(from, spender) ==
    IF sequence > allowance[from, spender].expiration_ledger
    THEN 0
    ELSE allowance[from, spender].amount

Approve(from, spender, amount, expiration) ==
    /\ amount >= 0
    /\ allowance' = [allowance EXCEPT ![<<from, spender>>] =
                        [amount |-> amount, expiration_ledger |-> expiration]]
    /\ UNCHANGED <<admin, balance, totalSupply, sequence>>

\* A transfer to oneself returns before any balance is written.
Transfer(from, to, amount) ==
    /\ amount > 0
    /\ balance[from] >= amount
    /\ \/ /\ from = to
          /\ UNCHANGED balance
       \/ /\ from # to
          /\ InI128(balance[to] + amount)
          /\ balance' = [balance EXCEPT ![from] = @ - amount, ![to] = @ + amount]
    /\ UNCHANGED <<admin, totalSupply, allowance, sequence>>

\* The allowance is re-written with what is left and its old expiration.
SpendAllowance(from, spender, amount) ==
    /\ CurrentAllowance(from, spender) >= amount
    /\ allowance' = [allowance EXCEPT ![<<from, spender>>] =
            [amount |-> CurrentAllowance(from, spender) - amount,
             expiration_ledger |-> allowance[from, spender].expiration_ledger]]

\* Both new balances are computed from what was read before either is
\* written, and there is no early return when from = to.
TransferFrom(spender, from, to, amount) ==
    /\ amount > 0
    /\ SpendAllowance(from, spender, amount)
    /\ balance[from] >= amount
    /\ InI128(balance[to] + amount)
    /\ LET newFrom == balance[from] - amount
           newTo   == balance[to] + amount
       IN  balance' = [[balance EXCEPT ![from] = newFrom] EXCEPT ![to] = newTo]
    /\ UNCHANGED <<admin, totalSupply, sequence>>

\* (mutant) the balance is not checked
DestroyUnchecked(from, amount) ==
    /\ amount > 0
    /\ InI128(totalSupply - amount)
    /\ balance' = [balance EXCEPT ![from] = @ - amount]
    /\ totalSupply' = totalSupply - amount

\* (mutant) the supply is not reduced
DestroyKeepingSupply(from, amount) ==
    /\ amount > 0
    /\ balance[from] >= amount
    /\ balance' = [balance EXCEPT ![from] = @ - amount]
    /\ totalSupply' = totalSupply

\* burn and burn_from share everything after the authorisation.
Destroy(from, amount) ==
    /\ amount > 0
    /\ balance[from] >= amount
    /\ InI128(totalSupply - amount)
    /\ balance' = [balance EXCEPT ![from] = @ - amount]
    /\ totalSupply' = totalSupply - amount

Burn(from, amount) ==
    /\ Destroy(from, amount)
    /\ UNCHANGED <<admin, allowance, sequence>>

BurnFrom(spender, from, amount) ==
    /\ SpendAllowance(from, spender, amount)
    /\ Destroy(from, amount)
    /\ UNCHANGED <<admin, sequence>>

Mint(caller, to, amount) ==
    /\ amount > 0
    /\ admin # NoAdmin
    /\ caller = admin
    /\ InI128(balance[to] + amount)
    /\ InI128(totalSupply + amount)
    /\ balance' = [balance EXCEPT ![to] = @ + amount]
    /\ totalSupply' = totalSupply + amount
    /\ UNCHANGED <<admin, allowance, sequence>>

SetAdmin(caller, newAdmin) ==
    /\ admin # NoAdmin
    /\ caller = admin
    /\ admin' = newAdmin
    /\ UNCHANGED <<balance, totalSupply, allowance, sequence>>

\* The network closes a ledger.
NextLedger ==
    /\ sequence < MaxLedger
    /\ sequence' = sequence + 1
    /\ UNCHANGED <<admin, balance, totalSupply, allowance>>

\* An entry point signed by the holder or the admin whose rights it uses.
OwnerStep ==
    \E a, b \in Accounts :
        \/ Initialize(a)
        \/ SetAdmin(a, b)
        \/ \E n \in Amounts :
            \/ Transfer(a, b, n)
            \/ Burn(a, n)
            \/ Mint(a, b, n)
            \/ b \in Spenders /\ \E e \in Expirations : Approve(a, b, n, e)

\* An entry point signed by a spender, on somebody's behalf.
SpenderStep ==
    \E s \in Spenders, a \in Accounts, n \in Amounts :
        \/ BurnFrom(s, a, n)
        \/ \E b \in Accounts : TransferFrom(s, a, b, n)

TokenNext == OwnerStep \/ SpenderStep \/ NextLedger

TokenSpec == TokenInit /\ [][TokenNext]_tokenVars

-----------------------------------------------------------------------------

Outstanding == SumFunction(balance)

\* total_supply() is documented to return the outstanding tokens: it is the
\* sum of the balances.
SupplyIsOutstanding == totalSupply = Outstanding

\* transfer, transfer_from between two holders, burn, burn_from and mint keep
\* the stored supply and the balances in step; only a transfer_from whose
\* source is its destination is left out.
SupplyFollowsBalances ==
    [][ (\A s \in Spenders, a \in Accounts, n \in Amounts : ~TransferFrom(s, a, a, n))
            => totalSupply' - totalSupply = Outstanding' - Outstanding ]_tokenVars

\* The holder signed the step itself, or a spender's unexpired allowance fell
\* by exactly what the holder lost.
HolderSigned(a) ==
    \E b \in Accounts, n \in Amounts : Transfer(a, b, n) \/ Burn(a, n)

SpenderPaid(a) ==
    \E s \in Spenders :
        /\ sequence <= allowance[a, s].expiration_ledger
        /\ allowance[a, s].amount - allowance'[a, s].amount = balance[a] - balance'[a]

\* A holder's balance only falls by its own signature or by a spender whose
\* unexpired allowance falls by exactly what the holder loses; the step that
\* debits one holder debits no other.
DebitsAreAuthorised ==
    [][ \A a \in Accounts : balance'[a] < balance[a] =>
            /\ \A b \in Accounts \ {a} : balance'[b] >= balance[b]
            /\ HolderSigned(a) \/ SpenderPaid(a) ]_tokenVars

=============================================================================
