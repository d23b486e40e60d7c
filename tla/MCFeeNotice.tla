---------------------------- MODULE MCFeeNotice ----------------------------
(***************************************************************************)
(* An instance of FeeNotice: two kinds move, caps scaled down to 1 and 2,  *)
(* schedules at, below and above the caps.                                 *)
(***************************************************************************)
EXTENDS FeeNotice

MCFeeCap == [entry |-> 1, exit |-> 1, mgmt |-> 1, perf |-> 2]

MCSchedules ==
    {[entry |-> e, exit |-> 0, mgmt |-> 0, perf |-> p] : e \in 0 .. 2, p \in {0, 2}}

=============================================================================
