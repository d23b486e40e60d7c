SPECIFICATION NoticeSpec
CONSTANTS
    Managers = {m1, m2}
    FeeCap <- MCFeeCap
    FEE_INCREASE_DELAY_SECS = 2
    Schedules <- MCSchedules
    Rates = {0, 1}
    NoSchedule = NoSchedule
    MaxTime = 5
INVARIANTS
    FeesWithinCaps
PROPERTIES
    RaisesAreNoticed
