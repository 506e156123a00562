CONSTANTS
    PixPct = 5
    BundlePct = 5
    FreeShippingMinimum = 1000
    NoCoupon = NoCoupon
    Orders <- MCOrders
    Reservations <- MCOrders
    Customers <- MCCustomers
    Cart <- MCCart
    Coupons <- MCCoupons
    Terms <- MCTerms
    Patches <- MCPatches
    Credits <- MCCredits
    OwnerOf <- MCOwnerOf
    InitialAmount <- MCInitialAmount
    ExpiryOrder <- MCExpiryOrder
    Expiring = {"old"}
SPECIFICATION Spec
INVARIANTS
    CreditConserved
    
    CouponLimit
    PriceIsPaid
    ProgressiveByRank
CHECK_DEADLOCK FALSE
