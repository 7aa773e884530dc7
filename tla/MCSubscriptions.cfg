SPECIFICATION FairSpec
CONSTANTS
    Plans = {basic, business}
    Free = free
    TrialPlans = {business}
    Invoices = {i1}
    Requests = {r1, r2}
    Workers = {w1, w2}
    PeriodDays = 2
    TrialDays = 1
    GraceDays = 1
    NoticeDays = 1
    Never = Never
INVARIANTS
    NoPlanWithoutPaymentOrTrial
    TrialOnce
PROPERTIES
    EarlyDowngradeWasRegraced
    UnpaidServiceEnds
