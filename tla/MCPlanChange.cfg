SPECIFICATION ChangeSpec
CONSTANTS
    PriceRows = {monthly, yearly}
    NoPrice = NoPrice
    Prices = {100, 333}
    Quantities = {1, 7}
    Coupons <- MCCoupons
    VatRateBps = 500
    Changes = {i1, i2}
    Day = 2
    Period = 3
    Trial = 1
    LastInstant = 5
INVARIANTS
    CreditBeyondPaidIsExplained
    TaxWithinHalfBaisa
PROPERTIES
    CreditGrowsByRaiseOnly
CHECK_DEADLOCK FALSE
