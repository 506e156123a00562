CONSTANTS
    Requests <- MCRequests
    Kind <- MCKind
    Lines <- MCLines
    Sold <- MCSold
    UnitPrice <- MCUnitPrice
    Items <- MCItems
    OrderTotal = 2385
    OrderCredit = 1000
    OrderShipping = 500
    Managers = {m1, m2}
    Labels = {l1, l2}
    None = None
    ByHand = {"approved", "received", "rejected"}
    ByCarrier = {"all"}
    Lost = TRUE
    Interrupted = {"swap"}
SPECIFICATION CalmSpec
SYMMETRY LabelAndManagerSymmetry
INVARIANTS
    ClaimsFitTheOrder
    PaidBackOnce
    RefundsFitTheOrder
    OneReverseLabelPaid
CHECK_DEADLOCK FALSE
