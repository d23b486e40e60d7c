----------------------------- MODULE FeeNotice -----------------------------
(***************************************************************************)
(* The notice depositors get of a fee raise.  A history variable records   *)
(* what has been announced to them and when, as an observer of the calls   *)
(* would, without reading the vault's activation timestamp.                *)
(***************************************************************************)
EXTENDS FeeTimelock

Notices == [schedule : [FeeKinds -> Nat], since : Nat]

ASSUME NoticeAssumption == NoSchedule \notin Notices

VARIABLE notice   \* [schedule, since] last announced and not withdrawn, or NoSchedule

noticeVars == <<manager, trader, fees, announced, now, notice>>

NoticeInit == FeeInit /\ notice = NoSchedule

NoticeNext ==
    \/ \E c \in Managers, s \in Schedules :
        /\ AnnounceFeeIncrease(c, s)
        /\ notice' = [schedule |-> s, since |-> now]
    \/ \E c \in Managers :
        /\ CommitFeeIncrease(c) \/ RenounceFeeIncrease(c)
        /\ notice' = NoSchedule
    \/ /\ \/ Tick
          \/ \E c, m \in Managers : SetManager(c, m) \/ SetTrader(c, m)
          \/ \E c \in Managers, k \in FeeKinds, b \in Rates : SetFeeBps(c, k, b)
       /\ UNCHANGED notice

NoticeSpec == NoticeInit /\ [][NoticeNext]_noticeVars

-----------------------------------------------------------------------------

\* What the proofs add to the types: the pending schedule is the one last
\* announced, and its activation is a full delay after that announcement,
\* however often it was re-announced.
NoticeInv ==
    \/ announced = NoSchedule /\ notice = NoSchedule
    \/ /\ announced # NoSchedule /\ notice # NoSchedule
       /\ notice.schedule = announced.schedule
       /\ notice.since \in Nat
       /\ announced.activation_ts = notice.since + FEE_INCREASE_DELAY_SECS

\* "Fee increases require announce -> timelock -> commit": a fee only rises to
\* the value that was last announced for it, at least a full delay after that
\* announcement and without its having been renounced or replaced since.
RaisesAreNoticed ==
    [][ \A k \in FeeKinds : fees'[k] > fees[k] =>
            /\ notice # NoSchedule
            /\ fees'[k] = notice.schedule[k]
            /\ now >= notice.since + FEE_INCREASE_DELAY_SECS ]_noticeVars

=============================================================================
