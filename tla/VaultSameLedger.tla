-------------------------- MODULE VaultSameLedger --------------------------
(***************************************************************************)
(* The same-ledger value guard as its users see it.  History variables     *)
(* record what each account did in the current ledger while the guard was  *)
(* on, without reading OpState.  Switching the guard off, and removing an  *)
(* account from the members, start the account's record afresh, as they    *)
(* end what the guard promises.                                            *)
(***************************************************************************)
EXTENDS Vault

VARIABLES
    kinds,        \* the kinds of operation an account did in this ledger
    navLeft,      \* the NAV its last one left
    undisturbed   \* every account found the NAV it had left

guardHistory == <<kinds, navLeft, undisturbed>>
guardVars    == <<vars, guardHistory>>

Fresh == [a \in Accounts |-> {}]

GuardInit ==
    Init /\ kinds = Fresh /\ navLeft = [a \in Accounts |-> 0] /\ undisturbed = TRUE

Operates(a, op) ==
    \E n \in Amounts :
        \/ op = "deposit" /\ "deposit" \in Calls /\ Deposit(a, n)
        \/ op = "withdraw" /\ "withdraw" \in Calls /\ Withdraw(a, n)
        \/ \E s \in Strategies :
               \/ op = "invest" /\ "invest" \in Calls /\ Invest(a, s, n)
               \/ op = "unwind" /\ "unwind" \in Calls /\ Unwind(a, s, n)

Operation(a, op) ==
    /\ Operates(a, op)
    /\ IF config.value_guard
       THEN /\ undisturbed' = (undisturbed /\ (kinds[a] # {} => Nav = navLeft[a]))
            /\ kinds' = [kinds EXCEPT ![a] = @ \cup {op}]
            /\ navLeft' = [navLeft EXCEPT ![a] = Nav']
       ELSE UNCHANGED guardHistory

Removal ==
    \E c \in Managers, a \in Accounts :
        /\ "members" \in Calls /\ RemoveMember(c, a)
        /\ kinds' = [kinds EXCEPT ![a] = {}]
        /\ navLeft' = [navLeft EXCEPT ![a] = 0]
        /\ UNCHANGED undisturbed

Reconfiguration ==
    /\ ConfigCall \/ AccessCall
    /\ kinds' = IF config'.value_guard THEN kinds ELSE Fresh
    /\ UNCHANGED <<navLeft, undisturbed>>

NewLedger == Time /\ kinds' = Fresh /\ UNCHANGED <<navLeft, undisturbed>>

Unrelated ==
    /\ ListCall \/ MemberAdditions \/ HolderCall \/ StrategyCall \/ Environment
    /\ UNCHANGED guardHistory

GuardNext ==
    \/ \E a \in Accounts, op \in Operations : Operation(a, op)
    \/ Removal \/ Reconfiguration \/ NewLedger \/ Unrelated

GuardSpec == GuardInit /\ [][GuardNext]_guardVars

-----------------------------------------------------------------------------

\* What the guard's properties rest on: while an account has operated in this
\* ledger, its checkpoint is of this ledger and says what the account did and
\* left, so the next call is compared with that.
GuardInv ==
    /\ undisturbed
    /\ kinds \in [Accounts -> SUBSET Operations]
    /\ navLeft \in [Accounts -> Nat]
    /\ \A a \in {b \in Accounts : kinds[b] # {}} :
          /\ config.value_guard
          /\ \E op \in Operations :
                /\ kinds[a] = {op}
                /\ opState[a] = [ledger |-> now, op_type |-> op, expected_nav_after |-> navLeft[a]]

\* "same-ledger operation/value checkpoints are enforced": with the guard on,
\* nobody deposits and withdraws, or mixes any two kinds of operation, within
\* one ledger, whatever other accounts do in between.
OneKindPerLedger == \A a \in Accounts : Cardinality(kinds[a]) <= 1

\* ... and nobody operates twice in one ledger on a NAV that changed after the
\* first time, by another account's operation, a donation or a report.
NavFoundAsLeft == undisturbed

=============================================================================
