---------------------------- MODULE FeeTimelock ----------------------------
(***************************************************************************)
(* The fee schedule of the vault and its roles (contracts/vault): direct   *)
(* setters may only lower a fee; a raise is announced, waits for           *)
(* FEE_INCREASE_DELAY_SECS and is then committed or renounced.             *)
(*                                                                         *)
(* A schedule maps the four fee kinds to basis points.  The five storage   *)
(* keys of an announcement are always written and cleared together, so     *)
(* they are one record here.                                               *)
(***************************************************************************)
EXTENDS Integers

CONSTANTS
    Managers,                 \* addresses that may hold or be given a role
    FeeCap,                   \* MAX_*_FEE_BPS of each kind
    FEE_INCREASE_DELAY_SECS,  \* timelock of a raise
    Schedules,                \* schedules callers pass to initialize and announce
    Rates,                    \* basis points callers pass to a direct setter
    NoSchedule,               \* nothing is announced
    MaxTime                   \* bound: the last timestamp of a behaviour

FeeKinds == {"entry", "exit", "mgmt", "perf"}

Announcements == [schedule : [FeeKinds -> Nat], activation_ts : Nat]

ASSUME FeeAssumption ==
    /\ NoSchedule \notin Announcements
    /\ FeeCap \in [FeeKinds -> Nat]
    /\ FEE_INCREASE_DELAY_SECS \in Nat
    /\ Schedules \subseteq [FeeKinds -> Nat]
    /\ Rates \subseteq Nat
    /\ MaxTime \in Nat

VARIABLES
    manager,     \* DataKey::Manager
    trader,      \* DataKey::Trader
    fees,        \* the four *FeeBps keys
    announced,   \* the five Announced* keys, or NoSchedule
    now          \* env.ledger().timestamp()

feeVars == <<manager, trader, fees, announced, now>>

WithinCaps(schedule) == \A k \in FeeKinds : schedule[k] <= FeeCap[k]

FeeTypeOK ==
    /\ manager \in Managers
    /\ trader \in Managers
    /\ fees \in [FeeKinds -> Nat]
    /\ announced = NoSchedule \/ announced \in Announcements
    /\ now \in Nat

\* What initialize leaves behind when the fees of its parameters are in bounds.
FeeInit ==
    /\ manager \in Managers
    /\ trader \in Managers
    /\ fees \in {s \in Schedules : WithinCaps(s)}
    /\ announced = NoSchedule
    /\ now = 0

-----------------------------------------------------------------------------

SetManager(caller, new) ==
    /\ caller = manager
    /\ manager' = new
    /\ UNCHANGED <<trader, fees, announced, now>>

SetTrader(caller, new) ==
    /\ caller = manager
    /\ trader' = new
    /\ UNCHANGED <<manager, fees, announced, now>>

\* set_entry_fee_bps, set_exit_fee_bps, set_mgmt_fee_bps, set_perf_fee_bps.
\* A pending announcement is left in place.
SetFeeBps(caller, kind, bps) ==
    /\ caller = manager
    /\ bps <= FeeCap[kind]
    /\ bps <= fees[kind]
    /\ fees' = [fees EXCEPT ![kind] = bps]
    /\ UNCHANGED <<manager, trader, announced, now>>

\* (mutant) the caps are not checked
AnnounceUncapped(caller, schedule) ==
    /\ caller = manager
    /\ announced' = [schedule      |-> schedule,
                     activation_ts |-> now + FEE_INCREASE_DELAY_SECS]
    /\ UNCHANGED <<manager, trader, fees, now>>

AnnounceFeeIncrease(caller, schedule) ==
    /\ caller = manager
    /\ WithinCaps(schedule)
    /\ announced' = [schedule      |-> schedule,
                     activation_ts |-> now + FEE_INCREASE_DELAY_SECS]
    /\ UNCHANGED <<manager, trader, fees, now>>

\* (mutant) the timelock is not awaited
CommitEarly(caller) ==
    /\ caller = manager
    /\ announced # NoSchedule
    /\ fees' = announced.schedule
    /\ announced' = NoSchedule
    /\ UNCHANGED <<manager, trader, now>>

\* The whole announced schedule is written, over any direct decrease made
\* since it was announced.
CommitFeeIncrease(caller) ==
    /\ caller = manager
    /\ announced # NoSchedule
    /\ now >= announced.activation_ts
    /\ fees' = announced.schedule
    /\ announced' = NoSchedule
    /\ UNCHANGED <<manager, trader, now>>

RenounceFeeIncrease(caller) ==
    /\ caller = manager
    /\ announced' = NoSchedule
    /\ UNCHANGED <<manager, trader, fees, now>>

Tick ==
    /\ now < MaxTime
    /\ now' = now + 1
    /\ UNCHANGED <<manager, trader, fees, announced>>

\* The manager's entry points.
FeeCall ==
    \E c \in Managers :
        \/ \E m \in Managers : SetManager(c, m) \/ SetTrader(c, m)
        \/ \E k \in FeeKinds, b \in Rates : SetFeeBps(c, k, b)
        \/ \E s \in Schedules : AnnounceFeeIncrease(c, s)
        \/ CommitFeeIncrease(c)
        \/ RenounceFeeIncrease(c)

FeeNext == FeeCall \/ Tick

FeeSpec == FeeInit /\ [][FeeNext]_feeVars

-----------------------------------------------------------------------------

\* No fee in force, and no fee waiting to be committed, exceeds its hard cap:
\* the cap is checked when a schedule is announced, and not again on commit.
FeesWithinCaps ==
    /\ WithinCaps(fees)
    /\ announced # NoSchedule => WithinCaps(announced.schedule)

=============================================================================
