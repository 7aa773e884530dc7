SPECIFICATION BillingSpec
CONSTANTS
    Plans = {basic, business}
    Free = free
    TrialPlans = {business}
    Invoices = {i1, i2}
    Requests = {r1, r2}
    Workers = {w1}
    PeriodDays = 1
    TrialDays = 1
    GraceDays = 1
    NoticeDays = 1
    Never = Never
INVARIANTS
    NoPlanWithoutMoneyOrTrial
    BooksHold
PROPERTIES
    ImplementsBooks
