---------------------------- MODULE MCConstants ----------------------------
(***************************************************************************)
(* Values shared by the instances of the vault's modules.  Prices have one *)
(* binary digit of precision, fees are in tenths and a year is a ledger or *)
(* two long, so that rounding and accrual show at single-digit amounts.    *)
(***************************************************************************)

EXTENDS Integers

CONSTANTS s1, s2

Schedule(entry, exit, mgmt, perf) ==
    [entry |-> entry, exit |-> exit, mgmt |-> mgmt, perf |-> perf]

MCFeeCap == Schedule(5, 5, 5, 9)

NoFees   == {Schedule(0, 0, 0, 0)}
TwoSided == {Schedule(0, 0, 0, 0), Schedule(2, 3, 0, 0)}
AccruedFees == {Schedule(0, 0, 3, 9)}
EntryOnly == {Schedule(5, 0, 0, 0)}

OneList      == {<<s1>>}
GrowingLists == {<<>>, <<s1>>, <<s1, s2>>}
RepeatedList == {<<s1>>, <<s1, s1>>}

\* All amounts of an instance whose MaxNav is 5.
UpToFive == 0 .. 5

\* No two-asset strategy.
EmptyPair == {[a |-> 0, b |-> 0, total |-> 0]}
NoQuote   == {[a |-> 0, b |-> 0]}

=============================================================================
