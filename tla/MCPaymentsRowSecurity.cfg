SPECIFICATION FairSpec
CONSTANTS
    Invoices = {i1, i2}
    PaymentIds = {p1, p2}
    Requests = {r1, r2}
    Offers <- MCOffers
    VatRateBps = 500
    SessionTTL = 1
    RlsEnforced = TRUE
    Declines = {"failed"}
    MaxTime = 3
    NoInvoice = NoInvoice
    NoPayment = NoPayment
PROPERTY SessionsDoNotPendForever
CHECK_DEADLOCK FALSE
