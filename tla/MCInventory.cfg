CONSTANTS
    Orders <- MCOrders
    Returns <- MCReturns
    Products <- MCProducts
    Variants <- MCVariants
    Coloured <- MCColoured
    ProductOf <- MCProductOf
    Qty <- MCQty
    ReturnOrder <- MCReturnOrder
    ReturnQty <- MCReturnQty
    Legacy <- MCLegacy
    InitStock <- MCInitStock
    InitCell <- MCInitCell
SPECIFICATION FairSpec
INVARIANTS
    LedgerMatchesStock
    UnitsOutArePaid
    DeadOrdersHoldNothing
    StatusesAgree
    ColoursAddUp
PROPERTIES
    ImplementsLifecycle
    ExpiredReservationsEnd
