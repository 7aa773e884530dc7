SPECIFICATION FairSpec
CONSTANTS
    Invoices = {i1, i2}
    PaymentIds = {p1, p2}
    Requests = {r1, r2}
    Offers <- MCOffers
    VatRateBps = 500
    SessionTTL = 1
    RlsEnforced = FALSE
    Declines = {"failed"}
    MaxTime = 3
    NoInvoice = NoInvoice
    NoPayment = NoPayment
INVARIANTS
    BooksAgree
    AppliedWasCollected
PROPERTIES
    PaidIsFinal
    SessionsDoNotPendForever
    ImplementsSettlement
CHECK_DEADLOCK FALSE
